---- MODULE Spec2Model ----
(***************************************************************************)
(* Model of the two drivers of the repository and of the provider chain    *)
(* each of them calls:                                                     *)
(*   generate.py  main() and generate_single_chat_with_fallback()          *)
(*   analyze.py   the __main__ block and analyze_chat_with_fallback()      *)
(*                                                                         *)
(* Text is a sequence of tokens.  A raw provider answer of the analyzer is *)
(* written over the tokens                                                 *)
(*   "{" "}"  the two braces                                               *)
(*   "G"      the members of an object of the requested shape              *)
(*   "B"      the members of an object with a score and a label that are   *)
(*            outside the requested ranges                                 *)
(*   "n"      a JSON number                                                *)
(*   "p"      prose or markdown fencing (never part of a JSON document)    *)
(*   "w"      white space                                                  *)
(* and a generated dialogue over "c" (a visible character) and "w".        *)
(* Strings are assumed to be encodable in UTF-8, so that writing them to   *)
(* a file does not raise.                                                  *)
(***************************************************************************)
EXTENDS Integers, Sequences, FiniteSets, TLC

\* Number of scenarios of the generator, and largest number of records of
\* the analyzer's input (the source lists 20 scenarios).
NumScenarios == 2

\* Largest length of a raw answer of a provider of the analyzer.
MaxLen == 3

\* Largest length of a dialogue text answered by a provider of the generator.
MaxDialogueLen == 2

\* Largest length of a raw answer of Cohere in the runs that follow the
\* brace extraction text by text.
MaxExtractLen == 4

\* time.sleep(2) at the end of every iteration of both drivers.
PaceSeconds == 2

Min(a, b) == IF a < b THEN a ELSE b

-----------------------------------------------------------------------------
(* Text *)

JsonAlphabet == {"{", "}", "G", "B", "n", "p", "w"}
DialogueAlphabet == {"c", "w"}

TextsOver(alphabet, n) == UNION {[1..k -> alphabet] : k \in 0..n}

RawTexts == TextsOver(JsonAlphabet, MaxLen)
DialogueTexts == TextsOver(DialogueAlphabet, MaxDialogueLen)
ExtractTexts == TextsOver(JsonAlphabet, MaxExtractLen)

\* str.strip(): drops the leading and the trailing white space.
RECURSIVE LStrip(_)
LStrip(t) == IF t # <<>> /\ Head(t) = "w" THEN LStrip(Tail(t)) ELSE t

RECURSIVE RStrip(_)
RStrip(t) ==
  IF t # <<>> /\ t[Len(t)] = "w" THEN RStrip(SubSeq(t, 1, Len(t) - 1)) ELSE t

Strip(t) == RStrip(LStrip(t))

\* str.find(ch): the 0-based index of the first occurrence, or -1.
Find(t, ch) ==
  IF \E i \in 1..Len(t) : t[i] = ch
  THEN (CHOOSE i \in 1..Len(t) : t[i] = ch /\ \A j \in 1..(i - 1) : t[j] # ch) - 1
  ELSE -1

\* str.rfind(ch): the 0-based index of the last occurrence, or -1.
RFind(t, ch) ==
  IF \E i \in 1..Len(t) : t[i] = ch
  THEN (CHOOSE i \in 1..Len(t) : t[i] = ch /\ \A j \in (i + 1)..Len(t) : t[j] # ch) - 1
  ELSE -1

\* t[a:b] for indices a, b >= 0.
Slice(t, a, b) == SubSeq(t, a + 1, Min(b, Len(t)))

\* The brace extraction with a slice that stops before the last brace.
ExtractJsonExclusive(result_text) ==
  LET start_idx == Find(result_text, "{")
      end_idx == RFind(result_text, "}")
  IN IF start_idx # -1 /\ end_idx # -1
     THEN Slice(result_text, start_idx, end_idx)
     ELSE result_text

\* The brace extraction of the Cohere step of the analyzer.
ExtractJson(result_text) ==
  LET start_idx == Find(result_text, "{")
      end_idx == RFind(result_text, "}")
  IN IF start_idx # -1 /\ end_idx # -1
     THEN Slice(result_text, start_idx, end_idx + 1)
     ELSE result_text

-----------------------------------------------------------------------------
(* JSON values *)

NoValue == [kind |-> "none"]
Str(s) == [kind |-> "string", chars |-> s]
JsonNumber == [kind |-> "number"]
EmptyObject == [kind |-> "object"]

\* The object written by the members "G": the four fields, in range.
GoodObject ==
  [kind |-> "object", intent |-> "refund_request", satisfaction |-> "unsatisfied",
   quality_score |-> 2, agent_mistakes |-> <<"rude_tone">>]

\* The object written by the members "B": the four fields, out of range.
BadObject ==
  [kind |-> "object", intent |-> "refund_request", satisfaction |-> "unsatisfied",
   quality_score |-> 9, agent_mistakes |-> <<"slow_reply">>]

\* The value analyze_chat_with_fallback returns when all providers failed.
AnalyzeSentinel ==
  [kind |-> "object", intent |-> "error", satisfaction |-> "neutral",
   quality_score |-> 0, agent_mistakes |-> <<>>]

\* The text generate_single_chat_with_fallback returns when all providers
\* failed: "Client: Error generating chat.\nAgent: Please check API keys."
GenerateSentinel == Str(<<"Client: Error generating chat.", "Agent: Please check API keys.">>)

JsonError == [ok |-> FALSE, value |-> NoValue]
JsonOk(v) == [ok |-> TRUE, value |-> v]

\* json.loads on a text: white space between the tokens is skipped, and the
\* documents of the token language are a number, {} and an object with members.
JsonLoads(t) ==
  LET s == SelectSeq(t, LAMBDA c : c # "w")
  IN CASE s = <<"n">> -> JsonOk(JsonNumber)
       [] s = <<"{", "}">> -> JsonOk(EmptyObject)
       [] s = <<"{", "G", "}">> -> JsonOk(GoodObject)
       [] s = <<"{", "B", "}">> -> JsonOk(BadObject)
       [] OTHER -> JsonError

-----------------------------------------------------------------------------
(* Files *)

FileNames == {"dataset.json", "analyzed_dataset.json"}

\* The file the driver writes.
OutputFile(d) == IF d = "generate" THEN "dataset.json" ELSE "analyzed_dataset.json"

Absent == [exists |-> FALSE, content |-> <<>>]
FileOf(content) == [exists |-> TRUE, content |-> content]

\* A file content is the sequence of the chunks written to it.
OpenBracket == [t |-> "["]
CloseBracket == [t |-> "]"]
Item(v) == [t |-> "item", v |-> v]

\* A dump of the last record alone, as an append-style save would write.
JsonDumpLast(list) ==
  <<OpenBracket>> \o [i \in 1..Min(1, Len(list)) |-> Item(list[Len(list)])] \o <<CloseBracket>>

\* The chunks json.dump writes for a list of records, in order.
JsonDump(list) ==
  <<OpenBracket>> \o [i \in 1..Len(list) |-> Item(list[i])] \o <<CloseBracket>>

\* json.load of a file content: the list of its records, when the content is
\* a whole document.
JsonLoad(content) ==
  LET n == Len(content)
  IN IF /\ n >= 2
        /\ content[1].t = "["
        /\ content[n].t = "]"
        /\ \A i \in 2..(n - 1) : content[i].t = "item"
     THEN [ok |-> TRUE, value |-> [i \in 1..(n - 2) |-> content[i + 1].v]]
     ELSE [ok |-> FALSE, value |-> <<>>]

-----------------------------------------------------------------------------
(* Providers *)

Providers == {"gemini", "groq", "cohere"}

\* The order of the steps of each chain.
GenerateChain == <<"gemini", "groq", "cohere">>
\* The analyzer chain with Cohere moved to the end.
AnalyzeChainCohereLast == <<"gemini", "groq", "cohere">>

AnalyzeChain == <<"cohere", "gemini", "groq">>

Chain(d) == IF d = "generate" THEN GenerateChain ELSE AnalyzeChain

\* What a provider step meets: the client or the request raises, the
\* request raises the "too many requests" error of the provider, the
\* response holds no text (None, or no content part), or it holds a text.
Raises == [kind |-> "raise", text |-> <<>>]
RaisesRateLimited == [kind |-> "ratelimit", text |-> <<>>]
NoText == [kind |-> "none", text |-> <<>>]
Text(t) == [kind |-> "text", text |-> t]

GenerateOutcomes == {Raises, RaisesRateLimited, NoText} \cup {Text(t) : t \in DialogueTexts}
AnalyzeOutcomes == {Raises, RaisesRateLimited, NoText} \cup {Text(t) : t \in RawTexts}

\* What a step does with an outcome: return a value, or leave the try block
\* through its except clause (or past it) to the code after it.
Return(v) == [returned |-> TRUE, value |-> v]
FallThrough == [returned |-> FALSE, value |-> NoValue]

ReturnParsed(doc) ==
  IF JsonLoads(doc).ok THEN Return(JsonLoads(doc).value) ELSE FallThrough

\* Step 1 of the generator without its return statement.
GeminiGenerateNoReturn(o) == FallThrough

\* generate.py, step 1: returns only a truthy response.text, stripped.
GeminiGenerate(o) ==
  IF o.kind = "text" /\ o.text # <<>> THEN Return(Str(Strip(o.text))) ELSE FallThrough

\* Step 2 of the generator without the strip().
GroqGenerateUnstripped(o) ==
  IF o.kind = "text" THEN Return(Str(o.text)) ELSE FallThrough

\* generate.py, step 2: None.strip() raises, any text is returned stripped.
GroqGenerate(o) ==
  IF o.kind = "text" THEN Return(Str(Strip(o.text))) ELSE FallThrough

\* generate.py, step 3: content[0] of no content raises, any text is
\* returned stripped.
CohereGenerate(o) ==
  IF o.kind = "text" THEN Return(Str(Strip(o.text))) ELSE FallThrough

\* analyze.py, step 1: strip, brace extraction, json.loads.
CohereAnalyze(o) ==
  IF o.kind = "text" THEN ReturnParsed(ExtractJson(Strip(o.text))) ELSE FallThrough

\* analyze.py, step 2: json.loads(response.text); json.loads(None) raises.
GeminiAnalyze(o) ==
  IF o.kind = "text" THEN ReturnParsed(o.text) ELSE FallThrough

\* analyze.py, step 3: json.loads(completion.choices[0].message.content).
GroqAnalyze(o) ==
  IF o.kind = "text" THEN ReturnParsed(o.text) ELSE FallThrough

Step(d, prov, o) ==
  CASE d = "generate" /\ prov = "gemini" -> GeminiGenerate(o)
    [] d = "generate" /\ prov = "groq" -> GroqGenerate(o)
    [] d = "generate" /\ prov = "cohere" -> CohereGenerate(o)
    [] d = "analyze" /\ prov = "cohere" -> CohereAnalyze(o)
    [] d = "analyze" /\ prov = "gemini" -> GeminiAnalyze(o)
    [] d = "analyze" /\ prov = "groq" -> GroqAnalyze(o)

\* The value the chain returns after its last step failed.
Sentinel(d) == IF d = "generate" THEN GenerateSentinel ELSE AnalyzeSentinel

\* The text a step of the analyzer hands to json.loads.
ParsedText(prov, t) == IF prov = "cohere" THEN ExtractJson(Strip(t)) ELSE t

\* What a provider answered, as the log of a chain invocation records it:
\*   "raise"    an exception
\*   "ratelimit" the "too many requests" exception
\*   "none"     a response without text
\*   "empty"    a text that is empty, or empty once stripped
\*   "invalid"  (analyzer) a text that is not a JSON document
\*   "valid"    a non-empty text (generator), a JSON document (analyzer)
\* and its output: the stripped text, or the parsed document.
Answer(d, prov, o) ==
  CASE o.kind = "raise" -> [answer |-> "raise", output |-> NoValue]
    [] o.kind = "ratelimit" -> [answer |-> "ratelimit", output |-> NoValue]
    [] o.kind = "none" -> [answer |-> "none", output |-> NoValue]
    [] o.kind = "text" /\ Strip(o.text) = <<>> -> [answer |-> "empty", output |-> NoValue]
    [] OTHER ->
         IF d = "generate"
         THEN [answer |-> "valid", output |-> Str(Strip(o.text))]
         ELSE IF JsonLoads(ParsedText(prov, o.text)).ok
              THEN [answer |-> "valid", output |-> JsonLoads(ParsedText(prov, o.text)).value]
              ELSE [answer |-> "invalid", output |-> NoValue]

Outcomes(d) == IF d = "generate" THEN GenerateOutcomes ELSE AnalyzeOutcomes

\* Every (answer, step result) pair a step of a chain can produce; with the
\* key of the provider absent from the environment the client raises.
StepResults ==
  [d \in {"generate", "analyze"} |->
    [prov \in Providers |->
      [keyed \in BOOLEAN |->
        {[seen |-> Answer(d, prov, o), step |-> Step(d, prov, o)] :
           o \in IF keyed THEN Outcomes(d) ELSE {Raises}}]]]

-----------------------------------------------------------------------------
(* The drivers *)

VARIABLES
  driver,    \* "generate" (generate.py) or "analyze" (analyze.py)
  keys,      \* the providers whose API key is in the environment
  files,     \* the two dataset files
  pc,        \* the position of the driver
  dataset,   \* scenarios (generator), or the loaded dataset (analyzer)
  idx,       \* the number of items whose iteration has ended
  results,   \* generated_dataset, or analyzed_results
  cpos,      \* the step of the chain about to run, 0 outside the chain
  log,       \* the answers of the providers called by this chain invocation
  ret,       \* the value the chain returned
  requested, \* TRUE once a request was sent to a provider in this run
  wpos,      \* the number of chunks json.dump has written
  slept,     \* the seconds of the last time.sleep
  prior,     \* the output file as the driver found it at its start
  counts,    \* the chain invocations, persists and sleeps of the run so far
  raw        \* the raw text Cohere answers (extraction runs only)

vars ==
  <<driver, keys, files, pc, dataset, idx, results, cpos, log, ret, requested, wpos, slept,
    prior, counts, raw>>

\* scenario_type of the i-th scenario.
Scenario(i) == Str(<<"scenario", i>>)

Scenarios == [i \in 1..NumScenarios |-> Scenario(i)]

\* A record of dataset.json as the generator writes it.
DialogueRecord(i, text) == [id |-> i, scenario_type |-> Scenario(i), dialogue |-> text]

\* An enriched record rebuilt from chosen fields, scenario_type left out.
EnrichedWithoutScenario(item, analysis) ==
  [id |-> item.id, dialogue |-> item.dialogue, analysis |-> analysis]

\* The record the analyzer appends: item['analysis'] = analysis.
Enriched(item, analysis) ==
  [id |-> item.id, scenario_type |-> item.scenario_type, dialogue |-> item.dialogue,
   analysis |-> analysis]

\* An output left by an earlier run: one record with a dialogue no provider
\* of this run answers.
OldDialogue == Str(<<"o">>)
OldDataset == <<DialogueRecord(1, OldDialogue)>>
OldAnalyzed == <<Enriched(DialogueRecord(1, OldDialogue), GoodObject)>>

\* The datasets the analyzer may find: whole documents of 0..NumScenarios
\* records written by the generator.
InputDatasets ==
  {[i \in 1..n |-> DialogueRecord(i, Str(<<"c">>))] : n \in 0..NumScenarios}

\* dataset.json cut short by a crash of the generator during a write.
Truncated == <<OpenBracket>>

InitialFiles(d) ==
  IF d = "generate"
  THEN {[f \in FileNames |-> IF f = "dataset.json" THEN old ELSE Absent] :
          old \in {Absent, FileOf(JsonDump(OldDataset))}}
  ELSE {[f \in FileNames |-> IF f = "dataset.json" THEN input ELSE old] :
          input \in {Absent, FileOf(Truncated)} \cup {FileOf(JsonDump(ds)) : ds \in InputDatasets},
          old \in {Absent, FileOf(JsonDump(OldAnalyzed))}}

Init ==
  /\ driver \in {"generate", "analyze"}
  /\ keys \in SUBSET Providers
  /\ files \in InitialFiles(driver)
  /\ pc = "start"
  /\ dataset = <<>>
  /\ idx = 0
  /\ results = <<>>
  /\ cpos = 0
  /\ log = <<>>
  /\ ret = NoValue
  /\ requested = FALSE
  /\ wpos = 0
  /\ slept = 0
  /\ prior = files[OutputFile(driver)]
  /\ counts = [chains |-> 0, persists |-> 0, sleeps |-> 0]
  /\ raw = <<>>

\* A start that checks the key of the first provider of the chain and
\* aborts without it.
StartFreshKeyChecked ==
  /\ pc = "start"
  /\ files' = [files EXCEPT ![OutputFile(driver)] = Absent]
  /\ pc' = IF Chain(driver)[1] \in keys THEN "load" ELSE "credential_missing"
  /\ UNCHANGED <<raw, prior, counts, driver, keys, dataset, idx, results, cpos, log, ret, requested, wpos, slept>>

\* A start that removes the old output only once the input is known to exist.
StartFreshGuarded ==
  /\ pc = "start"
  /\ files' = IF driver = "analyze" /\ ~files["dataset.json"].exists
              THEN files
              ELSE [files EXCEPT ![OutputFile(driver)] = Absent]
  /\ pc' = "load"
  /\ UNCHANGED <<raw, prior, counts, driver, keys, dataset, idx, results, cpos, log, ret, requested, wpos, slept>>

\* A start that leaves the output of an earlier run in place.
StartFreshKeep ==
  /\ pc = "start"
  /\ pc' = "load"
  /\ UNCHANGED <<raw, prior, counts, driver, keys, files, dataset, idx, results, cpos, log, ret, requested, wpos, slept>>

\* setup_environment(), then: if the output file exists, os.remove it.
StartFresh ==
  /\ pc = "start"
  /\ files' = [files EXCEPT ![OutputFile(driver)] = Absent]
  /\ pc' = "load"
  /\ UNCHANGED <<raw, prior, counts, driver, keys, dataset, idx, results, cpos, log, ret, requested, wpos, slept>>

\* generate.py: the scenarios are a literal; generated_dataset = [].
GenerateScenarios ==
  /\ pc = "load"
  /\ driver = "generate"
  /\ dataset' = Scenarios
  /\ results' = <<>>
  /\ pc' = "loop"
  /\ UNCHANGED <<raw, prior, counts, driver, keys, files, idx, cpos, log, ret, requested, wpos, slept>>

\* The load without the exit() of its except clause: the run goes on with
\* no record.
LoadAfterNoExit(file) ==
  IF ~file.exists THEN [pc |-> "loop", dataset |-> <<>>]
  ELSE IF ~JsonLoad(file.content).ok THEN [pc |-> "crashed", dataset |-> <<>>]
  ELSE [pc |-> "loop", dataset |-> JsonLoad(file.content).value]

\* analyze.py: json.load of dataset.json; FileNotFoundError prints and exits,
\* a JSONDecodeError is not caught.
LoadAfter(file) ==
  IF ~file.exists THEN [pc |-> "input_missing", dataset |-> <<>>]
  ELSE IF ~JsonLoad(file.content).ok THEN [pc |-> "crashed", dataset |-> <<>>]
  ELSE [pc |-> "loop", dataset |-> JsonLoad(file.content).value]

AnalyzeLoad ==
  /\ pc = "load"
  /\ driver = "analyze"
  /\ pc' = LoadAfter(files["dataset.json"]).pc
  /\ dataset' = LoadAfter(files["dataset.json"]).dataset
  /\ results' = <<>>
  /\ UNCHANGED <<raw, prior, counts, driver, keys, files, idx, cpos, log, ret, requested, wpos, slept>>

\* A for statement that stops one item short.
NextItemSkipsLast ==
  /\ pc = "loop"
  /\ IF idx < Len(dataset) - 1
     THEN pc' = "chain" /\ cpos' = 1
     ELSE pc' = "done" /\ cpos' = 0
  /\ log' = <<>>
  /\ ret' = NoValue
  /\ counts' = IF idx < Len(dataset) - 1 THEN [counts EXCEPT !.chains = @ + 1] ELSE counts
  /\ UNCHANGED <<raw, prior, driver, keys, files, dataset, idx, results, requested, wpos, slept>>

\* The for statement: the next item enters the chain, or the loop ends.
NextItem ==
  /\ pc = "loop"
  /\ IF idx < Len(dataset)
     THEN pc' = "chain" /\ cpos' = 1
     ELSE pc' = "done" /\ cpos' = 0
  /\ log' = <<>>
  /\ ret' = NoValue
  /\ counts' = IF idx < Len(dataset) THEN [counts EXCEPT !.chains = @ + 1] ELSE counts
  /\ UNCHANGED <<raw, prior, driver, keys, files, dataset, idx, results, requested, wpos, slept>>

\* The last step without its except clause: the exception leaves the chain.
AfterFailureRaises(d, position) ==
  IF position < Len(Chain(d))
  THEN [pc |-> "chain", cpos |-> position + 1, ret |-> NoValue]
  ELSE [pc |-> "crashed", cpos |-> 0, ret |-> NoValue]

\* What follows a failed step: the next try block, or, in the except clause
\* of the last step, the return of the sentinel.
AfterFailure(d, position) ==
  IF position < Len(Chain(d))
  THEN [pc |-> "chain", cpos |-> position + 1, ret |-> NoValue]
  ELSE [pc |-> "attach", cpos |-> 0, ret |-> Sentinel(d)]

\* What follows a step: its return ends the chain.
AfterStep(d, position, step) ==
  IF step.returned
  THEN [pc |-> "attach", cpos |-> 0, ret |-> step.value]
  ELSE AfterFailure(d, position)

\* The effect of a step with result r: the answer is logged, and the chain
\* returns or goes on.  A request is sent only when the client has a key.
StepEffect(d, prov, r) ==
  /\ log' = Append(log, [prov |-> prov, answer |-> r.seen.answer, output |-> r.seen.output])
  /\ pc' = AfterStep(d, cpos, r.step).pc
  /\ cpos' = AfterStep(d, cpos, r.step).cpos
  /\ ret' = AfterStep(d, cpos, r.step).ret
  /\ requested' = (requested \/ prov \in keys)

\* One step of a chain: the provider at position cpos is called.
ChainStep(d, prov) ==
  /\ Chain(d)[cpos] = prov
  /\ \E r \in StepResults[d][prov][(prov \in keys)] : StepEffect(d, prov, r)
  /\ UNCHANGED <<raw, prior, counts, driver, keys, files, dataset, idx, results, wpos, slept>>

GenerateGemini ==
  /\ pc = "chain" /\ driver = "generate"
  /\ ChainStep("generate", "gemini")

GenerateGroq ==
  /\ pc = "chain" /\ driver = "generate"
  /\ ChainStep("generate", "groq")

GenerateCohere ==
  /\ pc = "chain" /\ driver = "generate"
  /\ ChainStep("generate", "cohere")

AnalyzeCohere ==
  /\ pc = "chain" /\ driver = "analyze"
  /\ ChainStep("analyze", "cohere")

AnalyzeGemini ==
  /\ pc = "chain" /\ driver = "analyze"
  /\ ChainStep("analyze", "gemini")

AnalyzeGroq ==
  /\ pc = "chain" /\ driver = "analyze"
  /\ ChainStep("analyze", "groq")

\* generated_dataset.append({...}) / item['analysis'] = analysis;
\* analyzed_results.append(item).
Attached(d, list, i, item, value) ==
  IF d = "generate"
  THEN Append(list, DialogueRecord(i, value))
  ELSE Append(list, Enriched(item, value))

Attach ==
  /\ pc = "attach"
  /\ results' = Attached(driver, results, idx + 1, dataset[idx + 1], ret)
  /\ dataset' = IF driver = "analyze"
                THEN [dataset EXCEPT ![idx + 1] = Enriched(dataset[idx + 1], ret)]
                ELSE dataset
  /\ pc' = "open"
  /\ UNCHANGED <<raw, prior, counts, driver, keys, files, idx, cpos, log, ret, requested, wpos, slept>>

\* open(output, "w"): the file is created or cut to length 0.
PersistOpen ==
  /\ pc = "open"
  /\ files' = [files EXCEPT ![OutputFile(driver)] = FileOf(<<>>)]
  /\ wpos' = 0
  /\ pc' = "dump"
  /\ UNCHANGED <<raw, prior, counts, driver, keys, dataset, idx, results, cpos, log, ret, requested, slept>>

\* json.dump: the chunks of the whole list are written one after the other.
PersistWrite ==
  /\ pc = "dump"
  /\ wpos < Len(JsonDump(results))
  /\ files' = [files EXCEPT ![OutputFile(driver)] =
                 FileOf(Append(@.content, JsonDump(results)[wpos + 1]))]
  /\ wpos' = wpos + 1
  /\ UNCHANGED <<raw, prior, counts, driver, keys, pc, dataset, idx, results, cpos, log, ret, requested, slept>>

\* The end of the with block closes the file.
PersistClose ==
  /\ pc = "dump"
  /\ wpos = Len(JsonDump(results))
  /\ pc' = "pace"
  /\ counts' = [counts EXCEPT !.persists = @ + 1]
  /\ UNCHANGED <<raw, prior, driver, keys, files, dataset, idx, results, cpos, log, ret, requested, wpos, slept>>

\* time.sleep(2), and the iteration ends.
Pace ==
  /\ pc = "pace"
  /\ slept' = PaceSeconds
  /\ idx' = idx + 1
  /\ pc' = "loop"
  /\ counts' = [counts EXCEPT !.sleeps = @ + 1]
  /\ UNCHANGED <<raw, prior, driver, keys, files, dataset, results, cpos, log, ret, requested, wpos>>

Next ==
  \/ StartFresh
  \/ GenerateScenarios
  \/ AnalyzeLoad
  \/ NextItem
  \/ GenerateGemini
  \/ GenerateGroq
  \/ GenerateCohere
  \/ AnalyzeCohere
  \/ AnalyzeGemini
  \/ AnalyzeGroq
  \/ Attach
  \/ PersistOpen
  \/ PersistWrite
  \/ PersistClose
  \/ Pace

Spec == Init /\ [][Next]_vars

\* The interpreter runs the next statement, and every provider call returns
\* or raises: a step that can be taken is taken.
FairSpec == Spec /\ WF_vars(Next)

-----------------------------------------------------------------------------
(* The brace extraction, text by text *)

\* The analyzer at the first step of the chain for the only record of its
\* dataset, with the key of Cohere alone in the environment; raw is the
\* text Cohere is about to answer.
ExtractInit ==
  /\ driver = "analyze"
  /\ keys = {"cohere"}
  /\ files = [f \in FileNames |->
               IF f = "dataset.json"
               THEN FileOf(JsonDump(<<DialogueRecord(1, Str(<<"c">>))>>))
               ELSE Absent]
  /\ pc = "chain"
  /\ dataset = <<DialogueRecord(1, Str(<<"c">>))>>
  /\ idx = 0
  /\ results = <<>>
  /\ cpos = 1
  /\ log = <<>>
  /\ ret = NoValue
  /\ requested = FALSE
  /\ wpos = 0
  /\ slept = 0
  /\ prior = Absent
  /\ counts = [chains |-> 1, persists |-> 0, sleeps |-> 0]
  /\ raw \in ExtractTexts

\* Step 1 of analyze_chat_with_fallback on the answer raw.
CohereOnRaw ==
  /\ pc = "chain" /\ driver = "analyze"
  /\ Chain("analyze")[cpos] = "cohere"
  /\ StepEffect("analyze", "cohere",
                [seen |-> Answer("analyze", "cohere", Text(raw)),
                 step |-> CohereAnalyze(Text(raw))])
  /\ UNCHANGED <<raw, prior, counts, driver, keys, files, dataset, idx, results, wpos, slept>>

ExtractNext ==
  \/ CohereOnRaw
  \/ AnalyzeGemini
  \/ AnalyzeGroq

ExtractSpec == ExtractInit /\ [][ExtractNext]_vars

-----------------------------------------------------------------------------
(* Properties *)

\* The positions of the per-item loop.
InLoop == {"loop", "chain", "attach", "open", "dump", "pace"}

Output == files[OutputFile(driver)]

Failed(entry) == entry.answer # "valid"

PrimaryKeyAbsent == Chain(driver)[1] \notin keys

\* C1 (short-circuit): in a chain invocation the i-th call goes to the i-th
\* provider of the chain and is made only if every earlier provider of this
\* invocation failed; once a provider answered a valid payload no other
\* provider is called, so a valid first answer leaves exactly one call.
C1_ShortCircuit ==
  /\ Len(log) <= Len(Chain(driver))
  /\ \A i \in 1..Len(log) :
       /\ log[i].prov = Chain(driver)[i]
       /\ \A j \in 1..(i - 1) : Failed(log[j])
  /\ (pc = "chain" => \A i \in 1..Len(log) : Failed(log[i]))
  /\ (Len(log) >= 1 /\ ~Failed(log[1]) => Len(log) = 1 /\ pc # "chain")

\* C1 witness: the first provider answered a valid payload and the chain
\* returned after this single call.
C1_Witness ==
  /\ pc = "attach"
  /\ Len(log) = 1
  /\ ~Failed(log[1])

\* C2 (fallthrough result): when the providers before the last one called
\* failed and the last one answered a valid payload, the chain returns that
\* provider's output (the stripped text, the parsed document) and nothing else.
C2_FallthroughResult ==
  (pc = "attach" /\ Len(log) >= 1 /\ ~Failed(log[Len(log)])
     /\ \A j \in 1..(Len(log) - 1) : Failed(log[j]))
  => ret = log[Len(log)].output

\* C2 witness: two providers failed, the third answered a valid payload and
\* the chain returned.
C2_Witness ==
  /\ pc = "attach"
  /\ Len(log) = 3
  /\ Failed(log[1]) /\ Failed(log[2]) /\ ~Failed(log[3])
  /\ ret = log[3].output

\* C3 (all-fail sentinel), as claimed: the chain returns the sentinel if and
\* only if every provider of the chain failed.
C3_SentinelIffAllFailed ==
  pc = "attach" =>
    (ret = Sentinel(driver)
       <=> (Len(log) = Len(Chain(driver)) /\ \A i \in 1..Len(log) : Failed(log[i])))

\* C4 (failure absorption): a chain invocation always ends by returning a
\* value to the driver, whatever the providers answered; from inside the
\* loop the driver only moves inside the loop or to "done", never to a fatal
\* position, and it can always take its next step.
C4_FailuresAbsorbed ==
  /\ [](pc \in InLoop => ENABLED Next)
  /\ [][/\ (pc \in InLoop => pc' \in InLoop \cup {"done"})
        /\ (pc = "chain" /\ pc' # "chain" => pc' = "attach" /\ ret' # NoValue)
        /\ (pc = "attach" => pc' = "open")]_vars

\* C4 witness: every provider failed for the first item, the item was
\* persisted with the sentinel, and the driver is in the chain for the next
\* item, where a provider has failed again.
C4_Witness ==
  /\ pc = "chain"
  /\ idx = 1
  /\ Len(log) >= 1
  /\ JsonLoad(Output.content).ok
  /\ Len(JsonLoad(Output.content).value) = 1
  /\ IF driver = "generate"
     THEN results[1].dialogue = GenerateSentinel
     ELSE results[1].analysis = AnalyzeSentinel

\* C5 (empty output is a failure), as claimed: after a provider answered an
\* empty text the chain calls the next provider, or returns the sentinel if
\* it was the last; the chain never returns an empty string.
C5_EmptyOutputIsFailure ==
  /\ \A i \in 1..Len(log) :
       log[i].answer = "empty" =>
         IF i < Len(Chain(driver))
         THEN Len(log) > i \/ (pc = "chain" /\ cpos = i + 1)
         ELSE ret = Sentinel(driver)
  /\ ret # Str(<<>>)

\* The number of items whose persist step has ended.
Persisted == IF pc = "pace" THEN idx + 1 ELSE idx

\* C6 (per-item persistence): outside a write, once the persist step of the
\* i-th item has ended, the output file re-read is the list of the first i
\* items, in processing order; the item in flight is the only one missing.
C6_PerItemPersistence ==
  (pc \in {"loop", "chain", "attach", "open", "pace", "done"} /\ Persisted >= 1) =>
    /\ Output.exists
    /\ JsonLoad(Output.content).ok
    /\ Len(JsonLoad(Output.content).value) = Persisted
    /\ JsonLoad(Output.content).value = SubSeq(results, 1, Persisted)
    /\ \A k \in 1..Persisted :
         /\ JsonLoad(Output.content).value[k].id = k
         /\ JsonLoad(Output.content).value[k].scenario_type = Scenario(k)

\* C6 witness: the persist step of the second item has just ended and the
\* file holds two records.
C6_Witness ==
  /\ pc = "pace"
  /\ idx = 1
  /\ Len(JsonLoad(Output.content).value) = 2

\* C7 (atomic snapshot), as claimed: once the first item has been persisted
\* the output file is at every instant a whole JSON document holding the
\* records processed so far.
C7_AtomicSnapshot ==
  (pc \in InLoop /\ Persisted >= 1) =>
    /\ Output.exists
    /\ JsonLoad(Output.content).ok
    /\ \E k \in 0..Len(results) : JsonLoad(Output.content).value = SubSeq(results, 1, k)

C9_InputPreflight ==
  (driver = "analyze" /\ ~files["dataset.json"].exists) =>
    /\ pc \in {"start", "load", "input_missing"}
    /\ results = <<>>
    /\ idx = 0
    /\ log = <<>>
    /\ ~requested
    /\ files["analyzed_dataset.json"] \in {Absent, FileOf(JsonDump(OldAnalyzed))}
    /\ (pc # "start" => files["analyzed_dataset.json"] = Absent)

\* C9 witness: the analyzer found no dataset.json and stopped.
C9_Witness ==
  /\ driver = "analyze"
  /\ ~files["dataset.json"].exists
  /\ pc = "input_missing"

\* The five mistake labels of the instruction of the analyzer.
MistakeLabels ==
  {"ignored_question", "incorrect_info", "rude_tone", "no_resolution", "unnecessary_escalation"}

IsAnalysisResult(v) ==
  /\ DOMAIN v = {"kind", "intent", "satisfaction", "quality_score", "agent_mistakes"}
  /\ v.kind = "object"
  /\ v.quality_score \in 1..5
  /\ \A m \in 1..Len(v.agent_mistakes) : v.agent_mistakes[m] \in MistakeLabels

\* C10 (analysis shape), as claimed: every analysis the analyzer attaches to
\* a record is an object with the four fields, a score in 1..5 and mistake
\* labels among the five defined ones.
C10_AnalysisShape ==
  driver = "analyze" =>
    \A k \in 1..Len(results) : IsAnalysisResult(results[k].analysis)

-----------------------------------------------------------------------------
(* Properties of the brace extraction *)

HasToken(t, ch) == \E i \in 1..Len(t) : t[i] = ch

\* The positions (from 1) of the first "{" and of the last "}" of a text.
FirstOpen(t) == CHOOSE i \in 1..Len(t) : t[i] = "{" /\ \A j \in 1..(i - 1) : t[j] # "{"
LastClose(t) == CHOOSE i \in 1..Len(t) : t[i] = "}" /\ \A j \in (i + 1)..Len(t) : t[j] # "}"

\* The Cohere step returned to the caller / failed and left the turn to the
\* next provider of the chain.
CohereReturned == Len(log) = 1 /\ pc = "attach"
CohereFailed ==
  \/ Len(log) = 1 /\ pc = "chain" /\ cpos = 2
  \/ Len(log) >= 2 /\ log[1].prov = "cohere" /\ log[2].prov = "gemini"

\* The outcome of the Cohere step when doc is the text handed to the parser.
OutcomeOfParsing(doc) ==
  IF JsonLoads(doc).ok
  THEN CohereReturned /\ ret = JsonLoads(doc).value
  ELSE CohereFailed

\* C11 (brace extraction): once Cohere answered raw, the text parsed is raw
\* from its first "{" to its last "}" inclusive when it holds both in this
\* order, and raw itself when it holds no brace; a text with one kind of
\* brace only, or whose last "}" precedes its first "{", is a failure of
\* Cohere; every failure is followed by the call of the next provider, and
\* the caller gets a value, never an error.
C11_BraceExtraction ==
  /\ pc \in {"chain", "attach"}
  /\ (pc = "attach" => ret # NoValue)
  /\ Len(log) >= 1 =>
       /\ CohereReturned \/ CohereFailed
       /\ (HasToken(raw, "{") /\ HasToken(raw, "}") /\ FirstOpen(raw) <= LastClose(raw)
             => OutcomeOfParsing(SubSeq(raw, FirstOpen(raw), LastClose(raw))))
       /\ (~HasToken(raw, "{") /\ ~HasToken(raw, "}") => OutcomeOfParsing(raw))
       /\ (HasToken(raw, "{") /\ HasToken(raw, "}") /\ LastClose(raw) < FirstOpen(raw)
             => CohereFailed)
       /\ (HasToken(raw, "{") # HasToken(raw, "}") => CohereFailed)

\* C11 witness: Cohere wrapped the object in prose on both sides, and the
\* chain returned the object.
C11_Witness ==
  /\ raw = <<"p", "{", "}", "p">>
  /\ CohereReturned
  /\ ret = EmptyObject

-----------------------------------------------------------------------------
(* Properties of the drivers, continued *)

\* The records held by the item chunks of a file content.
RecordsIn(content) == {content[i].v : i \in {j \in 1..Len(content) : content[j].t = "item"}}

\* The first open of the output file by this run has happened.
FirstWriteStarted == idx >= 1 \/ pc \in {"dump", "pace"}

\* C12 (fresh run): once the driver is past its start, the output file of an
\* earlier run is gone before the first write of this run, and at every
\* later moment every record in the output file is a record this run
\* produced, none one the earlier run left.
C12_FreshRun ==
  pc # "start" =>
    /\ (~FirstWriteStarted => ~Output.exists)
    /\ RecordsIn(Output.content) \subseteq {results[k] : k \in 1..Len(results)}
    /\ RecordsIn(Output.content) \cap RecordsIn(prior.content) = {}

\* C12 witness: the driver found an output of an earlier run, and has now
\* persisted its second item.
C12_Witness ==
  /\ prior.exists
  /\ RecordsIn(prior.content) # {}
  /\ pc = "pace"
  /\ idx = 1
  /\ Cardinality(RecordsIn(Output.content)) >= 1

\* A failure of this item carried the rate-limit signal.
RateLimited == \E i \in 1..Len(log) : log[i].answer = "ratelimit"

\* C13 (rate-limit pause), as claimed: when the generator is about to start
\* the next item, the pause it has just taken was longer than the fixed
\* pacing interval if a provider failure of the item carried a rate-limit
\* signal, and was the fixed pacing interval otherwise.
C13_RateLimitPause ==
  (driver = "generate" /\ pc = "loop" /\ idx >= 1) =>
    IF RateLimited THEN slept > PaceSeconds ELSE slept = PaceSeconds

\* The providers called so far by this chain invocation, in call order.
Called == [i \in 1..Len(log) |-> log[i].prov]

\* C14 (provider order): the analyzer calls Cohere, then Gemini, then Groq,
\* and Groq only after Cohere and Gemini both failed; the generator calls
\* Gemini, then Groq, then Cohere.
C14_ProviderOrder ==
  /\ Len(log) <= 3
  /\ driver = "analyze" =>
       /\ Called = SubSeq(<<"cohere", "gemini", "groq">>, 1, Len(log))
       /\ \A i \in 1..Len(log) :
            log[i].prov = "groq" =>
              /\ i = 3
              /\ log[1].prov = "cohere" /\ Failed(log[1])
              /\ log[2].prov = "gemini" /\ Failed(log[2])
  /\ driver = "generate" =>
       Called = SubSeq(<<"gemini", "groq", "cohere">>, 1, Len(log))

\* C14 witness: the analyzer has called Groq, after Cohere and Gemini.
C14_Witness ==
  /\ driver = "analyze"
  /\ Len(log) = 3
  /\ log[3].prov = "groq"
  /\ ~Failed(log[3])

\* C15 (Cohere is the final fallback of the analyzer), as claimed: the
\* analyzer calls Cohere only as the third provider, after the two others
\* failed, and returns the sentinel only after Cohere failed last.
C15_CohereFinalFallback ==
  driver = "analyze" =>
    /\ \A i \in 1..Len(log) :
         log[i].prov = "cohere" =>
           /\ i = 3
           /\ \A j \in 1..2 : log[j].prov # "cohere" /\ Failed(log[j])
    /\ ((pc = "attach" /\ ret = AnalyzeSentinel) =>
          /\ Len(log) = 3
          /\ log[3].prov = "cohere"
          /\ Failed(log[3]))

\* 1 when the driver is at one of the positions ps, 0 otherwise.
At(ps) == IF pc \in ps THEN 1 ELSE 0

\* The steps of the items so far follow one another: the chain of item
\* idx + 1 is invoked after idx whole iterations, its persist after its
\* chain, its sleep after its persist.
Sequential ==
  pc \in InLoop \cup {"done"} =>
    /\ counts.chains = idx + At({"chain", "attach", "open", "dump", "pace"})
    /\ counts.persists = idx + At({"pace"})
    /\ counts.sleeps = idx
    /\ Len(results) = idx + At({"open", "dump", "pace"})
    /\ idx + At({"chain", "attach", "open", "dump", "pace"}) <= Len(dataset)
    /\ \A k \in 1..Len(results) :
         IF driver = "generate"
         THEN results[k].scenario_type = dataset[k]
         ELSE results[k].id = dataset[k].id /\ results[k].dialogue = dataset[k].dialogue
    /\ (pc = "done" =>
          /\ idx = Len(dataset)
          /\ counts.chains = Len(dataset)
          /\ counts.persists = Len(dataset))

\* C16 (sequential driver and termination): per item, in the order of the
\* input, the driver makes one chain invocation, then one persist, then one
\* pacing sleep; a run that enters the loop over N items reaches the end
\* of the run, and has then made N chain invocations and N persists.
C16_SequentialTermination ==
  /\ []Sequential
  /\ (pc = "loop") ~> (pc = "done")

\* C16 witness: a run over two items is done after two chain invocations,
\* two persists and two sleeps.
C16_Witness ==
  /\ pc = "done"
  /\ Len(dataset) = 2
  /\ counts = [chains |-> 2, persists |-> 2, sleeps |-> 2]

\* The records of dataset.json as the analyzer's input holds them.
InputRecords == JsonLoad(files["dataset.json"].content).value

\* Every record the analyzer produced so far is its input record with the
\* field analysis added, and at the end there is one per input record, in
\* the order of the input, in memory and in the output file.
FramePreserved ==
  (driver = "analyze" /\ pc \in InLoop \cup {"done"}) =>
    /\ Len(results) <= Len(InputRecords)
    /\ \A k \in 1..Len(results) :
         /\ DOMAIN InputRecords[k] = {"id", "scenario_type", "dialogue"}
         /\ DOMAIN results[k] = DOMAIN InputRecords[k] \cup {"analysis"}
         /\ results[k].id = InputRecords[k].id
         /\ results[k].scenario_type = InputRecords[k].scenario_type
         /\ results[k].dialogue = InputRecords[k].dialogue
    /\ (pc = "done" =>
          /\ Len(results) = Len(InputRecords)
          /\ (Len(InputRecords) >= 1 => JsonLoad(Output.content).value = results))

\* C17 (analyzer frame): the analyzer's output record is the input record
\* (id, scenario_type, dialogue unchanged) plus the one field analysis; at
\* the end the output has as many records as the input, in the same
\* order; and no step of the analyzer changes dataset.json.
C17_AnalyzerFrame ==
  /\ []FramePreserved
  /\ [][driver = "analyze" => files'["dataset.json"] = files["dataset.json"]]_vars

\* C17 witness: the analyzer is done with a dataset of two records.
C17_Witness ==
  /\ driver = "analyze"
  /\ pc = "done"
  /\ Len(InputRecords) = 2
  /\ Len(results) = 2
  /\ results[2].analysis = GoodObject

\* Every provider of the chain was called for this item and failed.
AllFailed == Len(log) = Len(Chain(driver)) /\ \A i \in 1..Len(log) : Failed(log[i])

\* C18 (generator ids are dense), as claimed: between iterations and at the
\* end, after i scenarios the in-memory dataset and the file hold i records
\* with ids 1..i and the scenario types in order; an item whose providers all
\* failed is stored with the placeholder dialogue; a completed run has N
\* records.
C18_DenseIds ==
  driver = "generate" =>
    /\ (pc \in {"loop", "done"} =>
          /\ Len(results) = idx
          /\ \A k \in 1..idx :
               results[k].id = k /\ results[k].scenario_type = Scenario(k)
          /\ (idx >= 1 => JsonLoad(Output.content).value = results))
    /\ (pc \in {"open", "dump", "pace"} /\ AllFailed =>
          results[Len(results)].dialogue = GenerateSentinel)
    /\ (pc = "done" => Len(results) = NumScenarios)

\* C19 (abort after reset): an analyzer that found an analyzed_dataset.json
\* of an earlier run and no dataset.json goes from its start to the load and
\* from there to input_missing, nowhere else, and from the load on the earlier
\* analyzed_dataset.json is deleted: the fatal input error does not leave
\* the prior output as it was.
C19_AbortAfterReset ==
  (driver = "analyze" /\ prior.exists /\ ~files["dataset.json"].exists /\ pc # "start") =>
    /\ pc \in {"load", "input_missing"}
    /\ files["analyzed_dataset.json"] = Absent
    /\ files["analyzed_dataset.json"] # prior
    /\ (pc = "input_missing" => ~ENABLED Next)

\* C19 witness: the analyzer has stopped on the missing input, and the
\* output of the earlier run is gone.
C19_Witness ==
  /\ driver = "analyze"
  /\ prior = FileOf(JsonDump(OldAnalyzed))
  /\ ~files["dataset.json"].exists
  /\ pc = "input_missing"
  /\ ~files["analyzed_dataset.json"].exists

====
